---- MODULE Spec2Model ----
(***************************************************************************)
(* Smart_Attendance_QA: the in-memory attendance store of attendance.py    *)
(* (class AttendanceTracker).                                              *)
(*                                                                         *)
(* Python values are modelled as tagged records [t, n, s]: t is the Python *)
(* type, n the numeric payload, s the characters of a str.  A str is a     *)
(* sequence of one-character strings, so that parsing, formatting and      *)
(* string comparison are computed character by character.                  *)
(***************************************************************************)
EXTENDS Integers, Sequences, FiniteSets, TLC

VARIABLES records, keytype, pc, last, prev, view, threads

vars == <<records, keytype, pc, last, prev, view, threads>>

(***************************************************************************)
(* Bounds of the exploration.                                              *)
(***************************************************************************)
\* add_record / import_from_csv are not explored beyond this many records
MaxRecords == 3
\* an imported file has at most this many data rows
MaxRows == 2
\* a caller writes at most this often into a dict get_all_records returned
MaxCallerWrites == 2

\* the number of requests a thread serves
MaxRounds == 2

(***************************************************************************)
(* Python values.                                                          *)
(***************************************************************************)
PyInt(n) == [t |-> "int", n |-> n, s |-> <<>>]
PyBool(b) == [t |-> "bool", n |-> IF b THEN 1 ELSE 0, s |-> <<>>]
\* a float with value h/2 (1.0 is PyFloat(2), 1.5 is PyFloat(3))
PyFloat(h) == [t |-> "float", n |-> h, s |-> <<>>]
PyStr(s) == [t |-> "str", n |-> 0, s |-> s]
PyNone == [t |-> "NoneType", n |-> 0, s |-> <<>>]

\* isinstance(v, int): bool is a subclass of int
IsInstanceInt(v) == v.t \in {"int", "bool"}

\* the dict keys (ints) that compare and hash equal to the value v
DictKeysEqual(v) ==
    CASE v.t \in {"int", "bool"} -> {v.n}
      [] v.t = "float" -> IF v.n % 2 = 0 THEN {v.n \div 2} ELSE {}
      [] OTHER -> {}

(***************************************************************************)
(* Characters and strings.                                                 *)
(***************************************************************************)
Digits == <<"0", "1", "2", "3", "4", "5", "6", "7", "8", "9">>

IsDigit(c) == \E i \in 1..10 : Digits[i] = c

DigitVal(c) == (CHOOSE i \in 1..10 : Digits[i] = c) - 1

\* the character at position i, or "" past either end
At(s, i) == IF i \in 1..Len(s) THEN s[i] ELSE ""

\* code point order of the characters that occur in date strings
\* (" " 32, "-" 45, "/" 47, "0".."9" 48..57)
Ord(c) ==
    CASE c = " " -> 32
      [] c = "-" -> 45
      [] c = "/" -> 47
      [] IsDigit(c) -> 48 + DigitVal(c)
      [] OTHER -> 120

\* Python's str comparison a <= b: lexicographic on code points
RECURSIVE StrLe(_, _)
StrLe(a, b) ==
    IF a = <<>> THEN TRUE
    ELSE IF b = <<>> THEN FALSE
    ELSE IF Ord(Head(a)) < Ord(Head(b)) THEN TRUE
    ELSE IF Ord(Head(a)) > Ord(Head(b)) THEN FALSE
    ELSE StrLe(Tail(a), Tail(b))

VALID_STATUSES ==
    << <<"P", "r", "e", "s", "e", "n", "t">>,
       <<"A", "b", "s", "e", "n", "t">>,
       <<"L", "e", "a", "v", "e">> >>

Present == VALID_STATUSES[1]
Absent == VALID_STATUSES[2]
Leave == VALID_STATUSES[3]

(***************************************************************************)
(* _validate_date: datetime.strptime(date, "%Y-%m-%d").date().isoformat()  *)
(* strptime matches the regular expression                                 *)
(*   (\d\d\d\d)-(1[0-2]|0[1-9]|[1-9])-(3[0-1]|[1-2]\d|0[1-9]|[1-9]| [1-9]) *)
(* at the start of the string and rejects unconverted trailing data; the   *)
(* date constructor then rejects year 0 and days past the end of a month.  *)
(***************************************************************************)
\* length of the month field at position 6 (it must be followed by "-"), 0 if none
MonthLen(s) ==
    LET a == At(s, 6)
        b == At(s, 7)
    IN  IF a = "1" /\ b \in {"0", "1", "2"} /\ At(s, 8) = "-" THEN 2
        ELSE IF a = "0" /\ IsDigit(b) /\ b # "0" /\ At(s, 8) = "-" THEN 2
        ELSE IF IsDigit(a) /\ a # "0" /\ b = "-" THEN 1
        ELSE 0

\* length of the day field at position p: the first alternative that matches, 0 if none
DayLen(s, p) ==
    LET a == At(s, p)
        b == At(s, p + 1)
    IN  IF a = "3" /\ b \in {"0", "1"} THEN 2
        ELSE IF a \in {"1", "2"} /\ IsDigit(b) THEN 2
        ELSE IF a = "0" /\ IsDigit(b) /\ b # "0" THEN 2
        ELSE IF IsDigit(a) /\ a # "0" THEN 1
        ELSE IF a = " " /\ IsDigit(b) /\ b # "0" THEN 2
        ELSE 0

\* int() of the digits s[from..to], blanks skipped as in the " [1-9]" day form
RECURSIVE FieldVal(_, _, _)
FieldVal(s, from, to) ==
    IF to < from THEN 0
    ELSE IF s[to] = " " THEN FieldVal(s, from, to - 1)
    ELSE 10 * FieldVal(s, from, to - 1) + DigitVal(s[to])

IsLeap(y) == y % 4 = 0 /\ (y % 100 # 0 \/ y % 400 = 0)

DaysInMonth(y, m) ==
    IF m = 2 THEN (IF IsLeap(y) THEN 29 ELSE 28)
    ELSE IF m \in {4, 6, 9, 11} THEN 30
    ELSE 31

\* the [year, month, day] strptime extracts from s, or ok = FALSE (ValueError)
Strptime(s) ==
    LET ml == MonthLen(s)
        dp == 6 + ml + 1
        dl == DayLen(s, dp)
        matched == /\ \A i \in 1..4 : IsDigit(At(s, i))
                   /\ At(s, 5) = "-"
                   /\ ml > 0
                   /\ dl > 0
        y == FieldVal(s, 1, 4)
        m == FieldVal(s, 6, 5 + ml)
        d == FieldVal(s, dp, dp + dl - 1)
    IN  IF ~matched THEN [ok |-> FALSE, y |-> 0, m |-> 0, d |-> 0]
        ELSE IF dp + dl - 1 # Len(s) THEN [ok |-> FALSE, y |-> 0, m |-> 0, d |-> 0]
        ELSE IF y < 1 \/ d > DaysInMonth(y, m) THEN [ok |-> FALSE, y |-> 0, m |-> 0, d |-> 0]
        ELSE [ok |-> TRUE, y |-> y, m |-> m, d |-> d]

\* "%0<w>d" % n
RECURSIVE ZeroPad(_, _)
ZeroPad(n, w) ==
    IF w = 0 THEN <<>> ELSE Append(ZeroPad(n \div 10, w - 1), Digits[(n % 10) + 1])

\* date.isoformat(): "%04d-%02d-%02d"
IsoFormat(y, m, d) == ZeroPad(y, 4) \o <<"-">> \o ZeroPad(m, 2) \o <<"-">> \o ZeroPad(d, 2)

_validate_date(date) ==
    IF date.t # "str" THEN [ok |-> FALSE, s |-> <<>>]
    ELSE LET p == Strptime(date.s)
         IN  IF p.ok THEN [ok |-> TRUE, s |-> IsoFormat(p.y, p.m, p.d)]
             ELSE [ok |-> FALSE, s |-> <<>>]

\* _validate_emp_id raises unless isinstance(emp_id, int) and emp_id > 0
_validate_emp_id(emp_id) == IsInstanceInt(emp_id) /\ emp_id.n > 0

\* _validate_status raises unless status is one of VALID_STATUSES
_validate_status(status) ==
    status.t = "str" /\ \E i \in 1..Len(VALID_STATUSES) : VALID_STATUSES[i] = status.s

(***************************************************************************)
(* Floating point.  A Python float x >= 0 is [m, e] with x = m * 2^e; the  *)
(* natural number m < 2^MantissaBits is a sequence of limbs in base        *)
(* LimbBase, least significant first, without leading zero limbs (zero is  *)
(* <<>>).  Arithmetic rounds to nearest, ties to even (IEEE 754 binary64). *)
(***************************************************************************)
MantissaBits == 53

LimbBits == 16

LimbBase == 2 ^ LimbBits

RECURSIVE NatOf(_)
NatOf(n) == IF n = 0 THEN <<>> ELSE <<n % LimbBase>> \o NatOf(n \div LimbBase)

\* x without its leading (most significant) zero limbs
RECURSIVE StripZeros(_)
StripZeros(x) ==
    IF x = <<>> \/ x[Len(x)] # 0 THEN x ELSE StripZeros(SubSeq(x, 1, Len(x) - 1))

\* x * c + carry, for a natural c < 2^15
RECURSIVE MulSmall(_, _, _)
MulSmall(x, c, carry) ==
    IF x = <<>> THEN NatOf(carry)
    ELSE LET v == Head(x) * c + carry
         IN  <<v % LimbBase>> \o MulSmall(Tail(x), c, v \div LimbBase)

\* a + b + carry
RECURSIVE AddNat(_, _, _)
AddNat(a, b, carry) ==
    IF a = <<>> /\ b = <<>> THEN NatOf(carry)
    ELSE LET x == IF a = <<>> THEN 0 ELSE Head(a)
             y == IF b = <<>> THEN 0 ELSE Head(b)
             v == x + y + carry
         IN  <<v % LimbBase>> \o AddNat(IF a = <<>> THEN a ELSE Tail(a),
                                        IF b = <<>> THEN b ELSE Tail(b),
                                        v \div LimbBase)

\* a <= b
RECURSIVE LeNat(_, _)
LeNat(a, b) ==
    IF Len(a) # Len(b) THEN Len(a) < Len(b)
    ELSE IF a = <<>> THEN TRUE
    ELSE IF a[Len(a)] # b[Len(b)] THEN a[Len(a)] < b[Len(b)]
    ELSE LeNat(StripZeros(SubSeq(a, 1, Len(a) - 1)), StripZeros(SubSeq(b, 1, Len(b) - 1)))

\* x * 2^k
ShiftLeft(x, k) ==
    IF x = <<>> THEN x
    ELSE [i \in 1..(k \div LimbBits) |-> 0] \o MulSmall(x, 2 ^ (k % LimbBits), 0)

\* floor(x / 2^k)
ShiftRight(x, k) ==
    LET y == SubSeq(x, (k \div LimbBits) + 1, Len(x))
        d == k % LimbBits
    IN  StripZeros([i \in 1..Len(y) |->
                       (y[i] \div (2 ^ d))
                       + (IF i < Len(y) THEN (y[i + 1] % (2 ^ d)) * (2 ^ (LimbBits - d))
                          ELSE 0)])

\* the number of bits of a limb
RECURSIVE LimbLen(_)
LimbLen(n) == IF n = 0 THEN 0 ELSE 1 + LimbLen(n \div 2)

\* the number of bits of x
BitLen(x) == IF x = <<>> THEN 0 ELSE LimbBits * (Len(x) - 1) + LimbLen(x[Len(x)])

\* bit i of x (bit 0 is the least significant)
Bit(x, i) ==
    IF (i \div LimbBits) + 1 > Len(x) THEN 0
    ELSE (x[(i \div LimbBits) + 1] \div (2 ^ (i % LimbBits))) % 2

\* the natural w * 2^e rounded to MantissaBits bits, ties to even
RoundToFloat(w, e) ==
    IF BitLen(w) <= MantissaBits THEN [m |-> w, e |-> e]
    ELSE LET d == BitLen(w) - MantissaBits
             kept == ShiftRight(w, d)
             sticky == \E i \in 0..(d - 2) : Bit(w, i) = 1
             up == Bit(w, d - 1) = 1 /\ (sticky \/ Bit(kept, 0) = 1)
             r == IF up THEN AddNat(kept, <<1>>, 0) ELSE kept
         IN  IF BitLen(r) > MantissaBits
             THEN [m |-> ShiftRight(r, 1), e |-> e + d + 1]
             ELSE [m |-> r, e |-> e + d]

\* x divided by a natural t < 2^15: quotient limbs and remainder, from the top limb down
RECURSIVE DivSmall(_, _)
DivSmall(x, t) ==
    IF x = <<>> THEN [q |-> <<>>, r |-> 0]
    ELSE LET hi == DivSmall(Tail(x), t)
             v == hi.r * LimbBase + Head(x)
         IN  [q |-> <<v \div t>> \o hi.q, r |-> v % t]

\* the least k with p * 2^k >= t, for 0 < p
RECURSIVE LeadShift(_, _)
LeadShift(p, t) == IF p >= t THEN 0 ELSE 1 + LeadShift(2 * p, t)

\* int / int (true division) for 0 <= p <= t, t > 0: the correctly rounded quotient.
\* The quotient is developed to MantissaBits + 2 bits, followed by one bit that
\* records whether the division left a remainder.
TrueDiv(p, t) ==
    IF p = 0 THEN [m |-> <<>>, e |-> 0]
    ELSE LET n == MantissaBits + 1 + LeadShift(p, t)
             d == DivSmall(ShiftLeft(NatOf(p), n), t)
             w == AddNat(ShiftLeft(StripZeros(d.q), 1), NatOf(IF d.r > 0 THEN 1 ELSE 0), 0)
         IN  RoundToFloat(w, 0 - (n + 1))

\* float * int for a natural c < 2^15 (c is exactly representable)
FloatMulInt(x, c) == RoundToFloat(MulSmall(x.m, c, 0), x.e)

(***************************************************************************)
(* The store.  self.records is a dict of dicts: employee key -> date key   *)
(* -> status.                                                              *)
(***************************************************************************)
EmptyDict == <<>>

\* the number of (employee, date) entries of a store c among the employees es
RECURSIVE CountEntries(_, _)
CountEntries(c, es) ==
    IF es = {} THEN 0
    ELSE LET e == CHOOSE x \in es : TRUE
         IN  Cardinality(DOMAIN c[e]) + CountEntries(c, es \ {e})

NumRecords(c) == CountEntries(c, DOMAIN c)

\* d without the key k
DictDel(d, k) == [x \in (DOMAIN d) \ {k} |-> d[x]]

(***************************************************************************)
(* Inputs offered to the operations.                                       *)
(***************************************************************************)
EmpInputs == {PyInt(-1), PyInt(0), PyInt(1), PyInt(2), PyFloat(2)}

D_2024_02_29 == <<"2", "0", "2", "4", "-", "0", "2", "-", "2", "9">>
D_2026_02_01 == <<"2", "0", "2", "6", "-", "0", "2", "-", "0", "1">>
D_2026_10_01 == <<"2", "0", "2", "6", "-", "1", "0", "-", "0", "1">>
D_2026_2_1 == <<"2", "0", "2", "6", "-", "2", "-", "1">>
D_02_01_2026 == <<"0", "2", "-", "0", "1", "-", "2", "0", "2", "6">>
D_2025_02_29 == <<"2", "0", "2", "5", "-", "0", "2", "-", "2", "9">>

DateInputs ==
    {PyStr(D_2024_02_29), PyStr(D_2026_02_01), PyStr(D_2026_10_01), PyStr(D_2026_2_1),
     PyStr(D_02_01_2026), PyStr(D_2025_02_29), PyNone}

Late == <<"L", "a", "t", "e">>

StatusInputs == {PyStr(Present), PyStr(Absent), PyStr(Leave), PyStr(Late)}

RECURSIVE SeqsUpTo(_, _)
SeqsUpTo(S, n) ==
    IF n = 0 THEN {<<>>}
    ELSE LET shorter == SeqsUpTo(S, n - 1)
         IN  shorter \cup {Append(s, x) : s \in shorter, x \in S}

\* files with the header export_to_csv writes: a good row, a row with a status
\* that is not valid, a row that lacks its last cell
ExportedHeader == <<"Employee_ID", "Date", "Status">>

ExportedRowInputs ==
    {<<<<"1">>, D_2026_02_01, Present>>,
     <<<<"1">>, D_2026_02_01, Late>>,
     <<<<"2">>, D_2026_10_01>>}

\* files with the columns in another order: a good row, a row that lacks its last cell
ReorderedHeader == <<"Date", "Status", "Employee_ID">>

ReorderedRowInputs ==
    {<<D_2026_10_01, Absent, <<"2">>>>,
     <<D_2026_10_01, Absent>>}

FileInputs ==
    {[fieldnames |-> ExportedHeader, rows |-> r] : r \in SeqsUpTo(ExportedRowInputs, MaxRows)}
    \cup {[fieldnames |-> ReorderedHeader, rows |-> r] :
             r \in SeqsUpTo(ReorderedRowInputs, MaxRows)}

\* what a caller writes into the dict get_all_records returned
CallerEmps == {1, 2}
CallerDates == {D_2026_02_01, D_2026_10_01}
CallerStatuses == {Present, Absent}

(***************************************************************************)
(* Calls.  pc = "idle": no call in progress.  pc = "returned": the call    *)
(* described by last has run to completion; prev holds the contents of the *)
(* store when it started.                                                  *)
(***************************************************************************)
NoCall == [op |-> "none"]
NoView == [held |-> FALSE, writes |-> 0, outer |-> EmptyDict]

\* the key objects of self.records: the Python type of the object each employee key is
\* (a dict keeps the key object it was given first: True and 1 are the same key)
KeyObjects(keys, recs, t) == [e \in DOMAIN recs |-> IF e \in DOMAIN keys THEN keys[e] ELSE t]

\* the threads that serve requests
ThreadIds == {1, 2}

\* a request thread: the statement it is at (pc), its request (op, e, d, s), whether
\* the dict it took from setdefault has since been removed from the store (orphan),
\* the status code it answered, and the number of requests it has served
IdleThread ==
    [pc |-> "idle", op |-> "none", e |-> 0, d |-> <<>>, s |-> <<>>,
     orphan |-> FALSE, code |-> 0, served |-> 0]

NoThreads == [i \in ThreadIds |-> IdleThread]

Init ==
    /\ records = EmptyDict
    /\ keytype = EmptyDict
    /\ threads = NoThreads
    /\ pc = "idle"
    /\ last = NoCall
    /\ prev = EmptyDict
    /\ view = NoView

\* add_record raises ValueError unless the three validations pass
add_record_raises(emp_id, date, status) ==
    ~(_validate_emp_id(emp_id) /\ _validate_date(date).ok /\ _validate_status(status))

\* a variant that binds the employee to a new dict holding only the new entry
SetDefaultAndStore_Rebind(recs, k, nd, status) ==
    (k :> (nd :> status)) @@ recs

\* a variant in which an entry that is already there is kept (first write wins)
SetDefaultAndStore_KeepOld(recs, k, nd, status) ==
    IF k \in DOMAIN recs
    THEN [recs EXCEPT ![k] = @ @@ (nd :> status)]
    ELSE (k :> (nd :> status)) @@ recs

\* self.records.setdefault(emp_id, {})[normalized_date] = status
SetDefaultAndStore(recs, k, nd, status) ==
    IF k \in DOMAIN recs
    THEN [recs EXCEPT ![k] = (nd :> status) @@ @]
    ELSE (k :> (nd :> status)) @@ recs

\* a variant that creates the employee's dict before the status is validated
add_record_store_LateCheck(recs, emp_id, date, status) ==
    IF ~(_validate_emp_id(emp_id) /\ _validate_date(date).ok) THEN recs
    ELSE IF ~_validate_status(status)
    THEN (IF emp_id.n \in DOMAIN recs THEN recs ELSE (emp_id.n :> EmptyDict) @@ recs)
    ELSE (emp_id.n :> ((_validate_date(date).s :> status.s)
                          @@ (IF emp_id.n \in DOMAIN recs THEN recs[emp_id.n] ELSE EmptyDict)))
             @@ recs

\* the store add_record leaves
add_record_store(recs, emp_id, date, status) ==
    IF add_record_raises(emp_id, date, status) THEN recs
    ELSE SetDefaultAndStore(recs, emp_id.n, _validate_date(date).s, status.s)

add_record(emp_id, date, status) ==
    /\ pc = "idle"
    /\ \E after \in {add_record_store(records, emp_id, date, status)} :
        /\ NumRecords(after) <= MaxRecords
        /\ records' = after
        /\ prev' = records
        /\ keytype' = KeyObjects(keytype, after, emp_id.t)
        /\ last' = [op |-> "add_record", emp_id |-> emp_id, date |-> date,
                    status |-> status,
                    raised |-> add_record_raises(emp_id, date, status)]
        /\ pc' = "returned"
        /\ UNCHANGED <<view, threads>>

\* the key of recs that emp_id finds (emp_id in self.records), or none
Lookup(recs, emp_id) == {k \in DictKeysEqual(emp_id) : k \in DOMAIN recs}

\* a variant that drops the employee with every record once one entry is deleted
delete_record_result_DropEmployee(recs, emp_id, date) ==
    LET v == _validate_date(date)
        ks == Lookup(recs, emp_id)
    IN  IF ~v.ok THEN [raised |-> TRUE, ret |-> FALSE, records |-> recs]
        ELSE IF ks # {} /\ v.s \in DOMAIN recs[CHOOSE k \in ks : TRUE]
        THEN [raised |-> FALSE, ret |-> TRUE,
              records |-> DictDel(recs, CHOOSE k \in ks : TRUE)]
        ELSE [raised |-> FALSE, ret |-> FALSE, records |-> recs]

\* a variant that looks for the date without asking whether the employee is known
\* (self.records[emp_id] raises KeyError)
delete_record_result_NoEmployeeCheck(recs, emp_id, date) ==
    LET v == _validate_date(date)
        ks == Lookup(recs, emp_id)
    IN  IF ~v.ok \/ ks = {} THEN [raised |-> TRUE, ret |-> FALSE, records |-> recs]
        ELSE IF v.s \in DOMAIN recs[CHOOSE k \in ks : TRUE]
        THEN LET k == CHOOSE x \in ks : TRUE
                 inner == DictDel(recs[k], v.s)
             IN  IF inner = EmptyDict
                 THEN [raised |-> FALSE, ret |-> TRUE, records |-> DictDel(recs, k)]
                 ELSE [raised |-> FALSE, ret |-> TRUE,
                       records |-> [recs EXCEPT ![k] = inner]]
        ELSE [raised |-> FALSE, ret |-> FALSE, records |-> recs]

\* a variant that leaves the employee in the store with an empty dict
delete_record_result_KeepEmpty(recs, emp_id, date) ==
    LET v == _validate_date(date)
        ks == Lookup(recs, emp_id)
    IN  IF ~v.ok THEN [raised |-> TRUE, ret |-> FALSE, records |-> recs]
        ELSE IF ks # {} /\ v.s \in DOMAIN recs[CHOOSE k \in ks : TRUE]
        THEN [raised |-> FALSE, ret |-> TRUE,
              records |-> [recs EXCEPT ![CHOOSE k \in ks : TRUE] = DictDel(@, v.s)]]
        ELSE [raised |-> FALSE, ret |-> FALSE, records |-> recs]

\* a variant that looks for the employee first and validates the date only when
\* the employee is there
delete_record_result_LookupFirst(recs, emp_id, date) ==
    LET v == _validate_date(date)
        ks == Lookup(recs, emp_id)
    IN  IF ks = {} THEN [raised |-> FALSE, ret |-> FALSE, records |-> recs]
        ELSE IF ~v.ok THEN [raised |-> TRUE, ret |-> FALSE, records |-> recs]
        ELSE IF v.s \in DOMAIN recs[CHOOSE k \in ks : TRUE]
        THEN LET k == CHOOSE x \in ks : TRUE
                 inner == DictDel(recs[k], v.s)
             IN  IF inner = EmptyDict
                 THEN [raised |-> FALSE, ret |-> TRUE, records |-> DictDel(recs, k)]
                 ELSE [raised |-> FALSE, ret |-> TRUE,
                       records |-> [recs EXCEPT ![k] = inner]]
        ELSE [raised |-> FALSE, ret |-> FALSE, records |-> recs]

\* delete_record: True if the entry was there, False if not, ValueError on a bad date
delete_record_result(recs, emp_id, date) ==
    LET v == _validate_date(date)
        ks == Lookup(recs, emp_id)
    IN  IF ~v.ok THEN [raised |-> TRUE, ret |-> FALSE, records |-> recs]
        ELSE IF ks # {} /\ v.s \in DOMAIN recs[CHOOSE k \in ks : TRUE]
        THEN LET k == CHOOSE x \in ks : TRUE
                 inner == DictDel(recs[k], v.s)
             IN  IF inner = EmptyDict
                 THEN [raised |-> FALSE, ret |-> TRUE, records |-> DictDel(recs, k)]
                 ELSE [raised |-> FALSE, ret |-> TRUE,
                       records |-> [recs EXCEPT ![k] = inner]]
        ELSE [raised |-> FALSE, ret |-> FALSE, records |-> recs]

delete_record(emp_id, date) ==
    /\ pc = "idle"
    /\ \E res \in {delete_record_result(records, emp_id, date)} :
        /\ records' = res.records
        /\ prev' = records
        /\ keytype' = KeyObjects(keytype, res.records, "int")
        /\ last' = [op |-> "delete_record", emp_id |-> emp_id, date |-> date,
                    raised |-> res.raised, ret |-> res.ret]
        /\ pc' = "returned"
        /\ UNCHANGED <<view, threads>>

\* a variant that sets the count of a status to 1 instead of adding 1
RECURSIVE SummarizeFrom_SetOne(_, _, _)
SummarizeFrom_SetOne(summary, inner, dates) ==
    IF dates = {} THEN summary
    ELSE LET d == CHOOSE x \in dates : TRUE
         IN  SummarizeFrom_SetOne([summary EXCEPT ![inner[d]] = 1], inner, dates \ {d})

\* _summarize: every status starts at 0, then one is added per record
RECURSIVE SummarizeFrom(_, _, _)
SummarizeFrom(summary, inner, dates) ==
    IF dates = {} THEN summary
    ELSE LET d == CHOOSE x \in dates : TRUE
         IN  SummarizeFrom([summary EXCEPT ![inner[d]] = @ + 1], inner, dates \ {d})

_summarize(inner) ==
    SummarizeFrom([i \in 1..Len(VALID_STATUSES) |-> 0], 
                  [d \in DOMAIN inner |->
                      CHOOSE i \in 1..Len(VALID_STATUSES) : VALID_STATUSES[i] = inner[d]],
                  DOMAIN inner)

\* get_summary: None for an unknown employee, else the summary;
\* summary[i] is the count of VALID_STATUSES[i]
get_summary_result(recs, emp_id) ==
    IF Lookup(recs, emp_id) = {} THEN [none |-> TRUE, v |-> <<>>]
    ELSE [none |-> FALSE, v |-> _summarize(recs[CHOOSE k \in Lookup(recs, emp_id) : TRUE])]

\* get_all_summaries
get_all_summaries_result(recs) == [e \in DOMAIN recs |-> _summarize(recs[e])]

\* get_records: self.records.get(emp_id)
get_records_result(recs, emp_id) ==
    IF Lookup(recs, emp_id) = {} THEN [none |-> TRUE, v |-> <<>>]
    ELSE [none |-> FALSE, v |-> recs[CHOOSE k \in Lookup(recs, emp_id) : TRUE]]

\* sum(summary.values())
RECURSIVE SumSeq(_)
SumSeq(s) == IF s = <<>> THEN 0 ELSE Head(s) + SumSeq(Tail(s))

\* the return statement get_attendance_rate reaches: "none" (return None),
\* "zero" (total == 0: return 0.0) or "rate"
get_attendance_rate_branch(recs, emp_id) ==
    IF Lookup(recs, emp_id) = {} THEN "none"
    ELSE IF SumSeq(_summarize(recs[CHOOSE k \in Lookup(recs, emp_id) : TRUE])) = 0 THEN "zero"
    ELSE "rate"

\* a variant that leaves the Leave records out of the total
get_attendance_rate_result_NoLeave(recs, emp_id) ==
    IF Lookup(recs, emp_id) = {} THEN [branch |-> "none", v |-> [m |-> <<>>, e |-> 0]]
    ELSE LET summary == _summarize(recs[CHOOSE k \in Lookup(recs, emp_id) : TRUE])
             total == summary[1] + summary[2]
         IN  IF total = 0 THEN [branch |-> "zero", v |-> [m |-> <<>>, e |-> 0]]
             ELSE [branch |-> "rate", v |-> FloatMulInt(TrueDiv(summary[1], total), 100)]

\* get_attendance_rate: None, 0.0 on the total == 0 branch, else (Present / total) * 100
get_attendance_rate_result(recs, emp_id) ==
    IF Lookup(recs, emp_id) = {} THEN [branch |-> "none", v |-> [m |-> <<>>, e |-> 0]]
    ELSE LET summary == _summarize(recs[CHOOSE k \in Lookup(recs, emp_id) : TRUE])
             total == SumSeq(summary)
         IN  IF total = 0 THEN [branch |-> "zero", v |-> [m |-> <<>>, e |-> 0]]
             ELSE [branch |-> "rate", v |-> FloatMulInt(TrueDiv(summary[1], total), 100)]

\* start <= date <= end on str
InRange(start, date, end) == StrLe(start, date) /\ StrLe(date, end)

\* a variant that validates the bounds but compares the strings as they were given
filter_by_date_range_result_RawBounds(recs, start_date, end_date) ==
    LET start == _validate_date(start_date)
        end == _validate_date(end_date)
        filtered_records(e) == 
            [d \in {x \in DOMAIN recs[e] : InRange(start_date.s, x, end_date.s)} |-> recs[e][d]]
    IN  IF ~(start.ok /\ end.ok) THEN [raised |-> TRUE, ret |-> <<>>]
        ELSE [raised |-> FALSE,
              ret |-> [e \in {x \in DOMAIN recs : filtered_records(x) # EmptyDict} |->
                          filtered_records(e)]]

\* filter_by_date_range: ValueError on a bad bound, else the records in range,
\* without the employees that have none
filter_by_date_range_result(recs, start_date, end_date) ==
    LET start == _validate_date(start_date)
        end == _validate_date(end_date)
        filtered_records(e) == 
            [d \in {x \in DOMAIN recs[e] : InRange(start.s, x, end.s)} |-> recs[e][d]]
    IN  IF ~(start.ok /\ end.ok) THEN [raised |-> TRUE, ret |-> <<>>]
        ELSE [raised |-> FALSE,
              ret |-> [e \in {x \in DOMAIN recs : filtered_records(x) # EmptyDict} |->
                          filtered_records(e)]]

\* an operation that only reads the store
Read(call) ==
    /\ pc = "idle"
    /\ pc' = "returned"
    /\ last' = call
    /\ prev' = records
    /\ UNCHANGED <<records, keytype, view, threads>>

get_summary(emp_id) ==
    Read([op |-> "get_summary", emp_id |-> emp_id,
          ret |-> get_summary_result(records, emp_id)])

get_all_summaries ==
    Read([op |-> "get_all_summaries", ret |-> get_all_summaries_result(records)])

get_records(emp_id) ==
    Read([op |-> "get_records", emp_id |-> emp_id,
          ret |-> get_records_result(records, emp_id)])

get_attendance_rate(emp_id) ==
    Read([op |-> "get_attendance_rate", emp_id |-> emp_id,
          ret |-> get_attendance_rate_result(records, emp_id)])

filter_by_date_range(start_date, end_date) ==
    /\ pc = "idle"
    /\ \E res \in {filter_by_date_range_result(records, start_date, end_date)} :
          Read([op |-> "filter_by_date_range", start_date |-> start_date,
                end_date |-> end_date, raised |-> res.raised, ret |-> res.ret])

\* get_all_records: self.records.copy() is a new outer dict whose values are the
\* store's own inner dicts.  An entry of the returned dict is either such a shared
\* inner dict (its contents are whatever records holds) or a dict the caller put there.
get_all_records_result(recs) == [e \in DOMAIN recs |-> [shared |-> TRUE, own |-> EmptyDict]]

get_all_records ==
    /\ pc = "idle"
    /\ pc' = "returned"
    /\ last' = [op |-> "get_all_records"]
    /\ prev' = records
    /\ view' = [held |-> TRUE, writes |-> 0, outer |-> get_all_records_result(records)]
    /\ UNCHANGED <<records, keytype, threads>>

\* what the caller reads in the dict get_all_records returned
ViewContents == 
    [e \in DOMAIN view.outer |-> 
        IF view.outer[e].shared THEN records[e] ELSE view.outer[e].own]

(***************************************************************************)
(* import_from_csv.  A file is what csv.DictReader makes of it: the field  *)
(* names of the header row and, per data row, the cells of that row.       *)
(***************************************************************************)
\* s without leading and trailing blanks
RECURSIVE StripBlanks(_)
StripBlanks(s) ==
    IF s # <<>> /\ Head(s) = " " THEN StripBlanks(Tail(s))
    ELSE IF s # <<>> /\ s[Len(s)] = " " THEN StripBlanks(SubSeq(s, 1, Len(s) - 1))
    ELSE s

\* int(v): TypeError for None, ValueError unless the str is an optional sign and digits
PyIntOf(v) ==
    IF v.t = "NoneType" THEN [exc |-> "TypeError", n |-> 0]
    ELSE IF v.t \in {"int", "bool"} THEN [exc |-> "", n |-> v.n]
    ELSE IF v.t = "float" THEN [exc |-> "", n |-> v.n \div 2]
    ELSE LET b == StripBlanks(v.s)
             signed == b # <<>> /\ Head(b) \in {"+", "-"}
             ds == IF signed THEN Tail(b) ELSE b
         IN  IF ds = <<>> \/ \E i \in 1..Len(ds) : ~IsDigit(ds[i])
             THEN [exc |-> "ValueError", n |-> 0]
             ELSE [exc |-> "",
                   n |-> (IF signed /\ Head(b) = "-" THEN 0 - 1 ELSE 1)
                             * FieldVal(ds, 1, Len(ds))]

\* row[name] of the dict DictReader builds: KeyError without such a column,
\* None (restval) when the row is too short to have the cell
RowGet(fieldnames, cells, name) ==
    IF \A i \in 1..Len(fieldnames) : fieldnames[i] # name
    THEN [exc |-> "KeyError", v |-> PyNone]
    ELSE LET i == CHOOSE j \in 1..Len(fieldnames) : fieldnames[j] = name
         IN  [exc |-> "", v |-> IF i <= Len(cells) THEN PyStr(cells[i]) ELSE PyNone]

\* one pass of the loop body: "ok" (counted), "skip" (ValueError or KeyError caught)
\* or "TypeError" (not caught: it ends import_from_csv)
ImportRow(recs, fieldnames, cells) ==
    LET id == RowGet(fieldnames, cells, "Employee_ID")
        n == PyIntOf(id.v)
        date == RowGet(fieldnames, cells, "Date")
        status == RowGet(fieldnames, cells, "Status")
    IN  IF id.exc # "" THEN [how |-> "skip", records |-> recs]
        ELSE IF n.exc = "TypeError" THEN [how |-> "TypeError", records |-> recs]
        ELSE IF n.exc # "" \/ date.exc # "" \/ status.exc # ""
        THEN [how |-> "skip", records |-> recs]
        ELSE IF add_record_raises(PyInt(n.n), date.v, status.v)
        THEN [how |-> "skip", records |-> recs]
        ELSE [how |-> "ok", records |-> add_record_store(recs, PyInt(n.n), date.v, status.v)]

RECURSIVE ImportRows(_, _, _, _)
ImportRows(recs, count, fieldnames, rows) ==
    IF rows = <<>> THEN [raised |-> "", ret |-> count, records |-> recs]
    ELSE LET r == ImportRow(recs, fieldnames, Head(rows))
         IN  IF r.how = "TypeError" 
             THEN [raised |-> "TypeError", ret |-> count, records |-> r.records]
             ELSE ImportRows(r.records, IF r.how = "ok" THEN count + 1 ELSE count,
                             fieldnames, Tail(rows))

\* DictReader skips rows without any cell
import_from_csv_result(recs, file) ==
    ImportRows(recs, 0, file.fieldnames, SelectSeq(file.rows, LAMBDA r : r # <<>>))

import_from_csv(file) ==
    /\ pc = "idle"
    /\ \E res \in {import_from_csv_result(records, file)} :
        /\ NumRecords(res.records) <= MaxRecords
        /\ records' = res.records
        /\ prev' = records
        /\ last' = [op |-> "import_from_csv", file |-> file,
                    raised |-> res.raised, ret |-> res.ret]
        /\ keytype' = KeyObjects(keytype, res.records, "int")
        /\ pc' = "returned"
        /\ UNCHANGED <<view, threads>>

(***************************************************************************)
(* A caller that writes into the dict get_all_records returned to it.      *)
(***************************************************************************)
HoldsView == pc = "returned" /\ last.op = "get_all_records" /\ view.held

\* returned[e][d] = s
caller_set_entry(e, d, s) ==
    /\ HoldsView
    /\ view.writes < MaxCallerWrites
    /\ e \in DOMAIN view.outer
    /\ IF view.outer[e].shared
       THEN /\ records' = [records EXCEPT ![e] = (d :> s) @@ @]
            /\ NumRecords(records') <= MaxRecords
            /\ view' = [view EXCEPT !.writes = @ + 1]
       ELSE /\ view' = [view EXCEPT !.writes = @ + 1, !.outer[e].own = (d :> s) @@ @]
            /\ UNCHANGED records
    /\ UNCHANGED <<keytype, pc, last, prev, threads>>

\* del returned[e][d]
caller_del_entry(e, d) ==
    /\ HoldsView
    /\ view.writes < MaxCallerWrites
    /\ e \in DOMAIN view.outer
    /\ d \in DOMAIN ViewContents[e]
    /\ IF view.outer[e].shared
       THEN /\ records' = [records EXCEPT ![e] = DictDel(@, d)]
            /\ view' = [view EXCEPT !.writes = @ + 1]
       ELSE /\ view' = [view EXCEPT !.writes = @ + 1, !.outer[e].own = DictDel(@, d)]
            /\ UNCHANGED records
    /\ UNCHANGED <<keytype, pc, last, prev, threads>>

\* returned[e] = {}
caller_set_employee(e) ==
    /\ HoldsView
    /\ view.writes < MaxCallerWrites
    /\ view' = [view EXCEPT !.writes = @ + 1,
                            !.outer = (e :> [shared |-> FALSE, own |-> EmptyDict]) @@ @]
    /\ UNCHANGED <<records, keytype, pc, last, prev, threads>>

\* del returned[e]
caller_del_employee(e) ==
    /\ HoldsView
    /\ view.writes < MaxCallerWrites
    /\ e \in DOMAIN view.outer
    /\ view' = [view EXCEPT !.writes = @ + 1, !.outer = DictDel(@, e)]
    /\ UNCHANGED <<records, keytype, pc, last, prev, threads>>

\* the caller takes the result; the call is over
Return ==
    /\ pc = "returned"
    /\ pc' = "idle"
    /\ last' = NoCall
    /\ prev' = EmptyDict
    /\ view' = NoView
    /\ UNCHANGED <<records, keytype, threads>>

Next ==
    \/ \E e \in EmpInputs, d \in DateInputs, s \in StatusInputs : add_record(e, d, s)
    \/ \E e \in EmpInputs, d \in DateInputs : delete_record(e, d)
    \/ \E e \in EmpInputs : get_summary(e)
    \/ get_all_summaries
    \/ \E e \in EmpInputs : get_records(e)
    \/ \E e \in EmpInputs : get_attendance_rate(e)
    \/ \E a \in DateInputs, b \in DateInputs : filter_by_date_range(a, b)
    \/ get_all_records
    \/ \E f \in FileInputs : import_from_csv(f)
    \/ Return

Spec == Init /\ [][Next]_vars

\* the store used through add_record, delete_record and get_all_records by a caller
\* that writes into what get_all_records returned
NextAlias ==
    \/ \E e \in EmpInputs, d \in DateInputs, s \in StatusInputs : add_record(e, d, s)
    \/ \E e \in EmpInputs, d \in DateInputs : delete_record(e, d)
    \/ get_all_records
    \/ \E e \in CallerEmps, d \in CallerDates, s \in CallerStatuses : caller_set_entry(e, d, s)
    \/ \E e \in CallerEmps, d \in CallerDates : caller_del_entry(e, d)
    \/ \E e \in CallerEmps : caller_set_employee(e)
    \/ \E e \in CallerEmps : caller_del_employee(e)
    \/ Return

SpecAlias == Init /\ [][NextAlias]_vars

(***************************************************************************)
(* export_to_csv, and import_from_csv of the exported file into a fresh    *)
(* AttendanceTracker.                                                      *)
(***************************************************************************)
\* str(n) for an int n >= 0
RECURSIVE DecimalDigits(_)
DecimalDigits(n) ==
    IF n < 10 THEN <<Digits[n + 1]>>
    ELSE Append(DecimalDigits(n \div 10), Digits[(n % 10) + 1])

\* what csv.writer writes for an employee key: str(emp_id)
StrOfKey(n, t) ==
    IF t = "bool" THEN (IF n = 1 THEN <<"T", "r", "u", "e">> ELSE <<"F", "a", "l", "s", "e">>)
    ELSE DecimalDigits(n)

\* sorted(...) of a set of numbers, of a set of str
RECURSIVE SortedInts(_)
SortedInts(S) ==
    IF S = {} THEN <<>>
    ELSE LET m == CHOOSE x \in S : \A y \in S : x <= y
         IN  <<m>> \o SortedInts(S \ {m})

RECURSIVE SortedStrs(_)
SortedStrs(S) ==
    IF S = {} THEN <<>>
    ELSE LET m == CHOOSE x \in S : \A y \in S : StrLe(x, y)
         IN  <<m>> \o SortedStrs(S \ {m})

\* the rows written for the employees in emps (a sorted sequence of keys)
RECURSIVE ExportRows(_, _, _)
ExportRows(recs, keys, emps) ==
    IF emps = <<>> THEN <<>>
    ELSE LET e == Head(emps)
             dates == SortedStrs(DOMAIN recs[e])
         IN  [i \in 1..Len(dates) |-> <<StrOfKey(e, keys[e]), dates[i], recs[e][dates[i]]>>]
                 \o ExportRows(recs, keys, Tail(emps))

\* the file export_to_csv writes, as csv.DictReader reads it
export_to_csv_result(recs, keys) ==
    [fieldnames |-> ExportedHeader, rows |-> ExportRows(recs, keys, SortedInts(DOMAIN recs))]

export_to_csv ==
    Read([op |-> "export_to_csv", file |-> export_to_csv_result(records, keytype)])

\* AttendanceTracker().import_from_csv(path) on the file just exported: fresh is
\* the records of the new tracker
import_into_fresh ==
    /\ pc = "returned"
    /\ last.op = "export_to_csv"
    /\ LET res == import_from_csv_result(EmptyDict, last.file)
       IN  last' = [op |-> "import_into_fresh", file |-> last.file, raised |-> res.raised,
                    ret |-> res.ret, fresh |-> res.records]
    /\ UNCHANGED <<records, keytype, pc, prev, view, threads>>

\* ids offered where the exported text matters: two digits, and the bool True
ExportEmpInputs == {PyInt(1), PyInt(2), PyInt(10), PyBool(TRUE)}

ExportDateInputs == {PyStr(D_2024_02_29), PyStr(D_2026_02_01), PyStr(D_2026_10_01)}

ExportStatusInputs == {PyStr(Present), PyStr(Absent), PyStr(Leave)}

NextExport ==
    \/ \E e \in ExportEmpInputs, d \in ExportDateInputs, s \in ExportStatusInputs :
          add_record(e, d, s)
    \/ \E e \in ExportEmpInputs, d \in ExportDateInputs : delete_record(e, d)
    \/ export_to_csv
    \/ import_into_fresh
    \/ Return

SpecExport == Init /\ [][NextExport]_vars

(***************************************************************************)
(* The HTTP handlers of api.py, one request at a time, on the module-level *)
(* tracker.  A response is its status code and the success flag of its     *)
(* JSON envelope; an exception no handler clause catches is answered 500.  *)
(***************************************************************************)
\* data[name] for a name the JSON object does not have
Missing == [t |-> "missing", n |-> 0, s |-> <<>>]

\* request.get_json(): None for the JSON text null, else the object
JsonNull == [kind |-> "null", emp_id |-> Missing, date |-> Missing, status |-> Missing]

JsonObject(e, d, s) == [kind |-> "object", emp_id |-> e, date |-> d, status |-> s]

Response(code, success, recs) == [code |-> code, success |-> success, records |-> recs]

\* POST /api/records.  data['emp_id'] on None and int(None) raise TypeError, which
\* the except clause (KeyError, ValueError) does not catch.
api_add_record_result(recs, data) ==
    IF data.kind # "object" THEN Response(500, FALSE, recs)
    ELSE IF data.emp_id = Missing THEN Response(400, FALSE, recs)
    ELSE LET emp_id == PyIntOf(data.emp_id)
         IN  IF emp_id.exc = "TypeError" THEN Response(500, FALSE, recs)
             ELSE IF emp_id.exc # "" THEN Response(400, FALSE, recs)
             ELSE IF data.date = Missing \/ data.status = Missing
             THEN Response(400, FALSE, recs)
             ELSE IF add_record_raises(PyInt(emp_id.n), data.date, data.status)
             THEN Response(400, FALSE, recs)
             ELSE Response(201, TRUE,
                           add_record_store(recs, PyInt(emp_id.n), data.date, data.status))

\* a request handled from start to end
Request(call, recs) ==
    /\ pc = "idle"
    /\ NumRecords(recs) <= MaxRecords
    /\ pc' = "returned"
    /\ last' = call
    /\ prev' = records
    /\ records' = recs
    /\ keytype' = KeyObjects(keytype, recs, "int")
    /\ UNCHANGED <<view, threads>>

api_add_record(data) ==
    /\ pc = "idle"
    /\ \E res \in {api_add_record_result(records, data)} :
        Request([op |-> "POST /api/records", data |-> data,
                 code |-> res.code, success |-> res.success], res.records)

\* GET /api/records/<int:emp_id>
api_get_employee_records_result(recs, emp_id) ==
    IF get_records_result(recs, PyInt(emp_id)).none THEN Response(404, FALSE, recs)
    ELSE Response(200, TRUE, recs)

api_get_employee_records(emp_id) ==
    /\ pc = "idle"
    /\ \E res \in {api_get_employee_records_result(records, emp_id)} :
        Request([op |-> "GET /api/records/<emp_id>", emp_id |-> emp_id,
                 code |-> res.code, success |-> res.success,
                 payload |-> get_records_result(records, PyInt(emp_id)).v], res.records)

\* a variant that answers 404 whenever the store did not raise
api_delete_record_result_NotFound(recs, emp_id, date) ==
    LET res == delete_record_result(recs, PyInt(emp_id), PyStr(date))
    IN  IF res.raised THEN Response(400, FALSE, res.records)
        ELSE Response(404, FALSE, res.records)

\* DELETE /api/records/<int:emp_id>/<string:date>
api_delete_record_result(recs, emp_id, date) ==
    LET res == delete_record_result(recs, PyInt(emp_id), PyStr(date))
    IN  IF res.raised THEN Response(400, FALSE, res.records)
        ELSE IF res.ret THEN Response(200, TRUE, res.records)
        ELSE Response(404, FALSE, res.records)

api_delete_record(emp_id, date) ==
    /\ pc = "idle"
    /\ \E res \in {api_delete_record_result(records, emp_id, date)},
       call \in {delete_record_result(records, PyInt(emp_id), PyStr(date))} :
        Request([op |-> "DELETE /api/records/<emp_id>/<date>", emp_id |-> emp_id,
                 date |-> date, raised |-> call.raised, ret |-> call.ret,
                 code |-> res.code, success |-> res.success], res.records)

\* GET /api/summary/<int:emp_id>; the payload holds the summary and the rate
\* (before round(rate, 2))
api_get_employee_summary_result(recs, emp_id) ==
    IF get_summary_result(recs, PyInt(emp_id)).none THEN Response(404, FALSE, recs)
    ELSE Response(200, TRUE, recs)

api_get_employee_summary(emp_id) ==
    /\ pc = "idle"
    /\ \E res \in {api_get_employee_summary_result(records, emp_id)} :
        Request([op |-> "GET /api/summary/<emp_id>", emp_id |-> emp_id,
                 code |-> res.code, success |-> res.success,
                 payload |-> get_summary_result(records, PyInt(emp_id)).v], res.records)

\* not x, for a request argument: None or the empty str
Falsy(x) == x.t = "NoneType" \/ (x.t = "str" /\ x.s = <<>>)

\* GET /api/filter; called says whether tracker.filter_by_date_range was called
api_filter_records_result(recs, start_date, end_date) ==
    IF Falsy(start_date) \/ Falsy(end_date)
    THEN [code |-> 400, success |-> FALSE, called |-> FALSE, records |-> recs]
    ELSE IF filter_by_date_range_result(recs, start_date, end_date).raised
    THEN [code |-> 400, success |-> FALSE, called |-> TRUE, records |-> recs]
    ELSE [code |-> 200, success |-> TRUE, called |-> TRUE, records |-> recs]

api_filter_records(start_date, end_date) ==
    /\ pc = "idle"
    /\ \E res \in {api_filter_records_result(records, start_date, end_date)} :
        Request([op |-> "GET /api/filter", start_date |-> start_date,
                 end_date |-> end_date, called |-> res.called,
                 code |-> res.code, success |-> res.success], res.records)

\* request bodies: emp_id 1, 2, 0, -1, 1.5, "abc", null or missing
NotANumber == <<"a", "b", "c">>

PostEmpInputs ==
    {PyInt(1), PyInt(2), PyInt(0), PyInt(-1), PyFloat(3), PyStr(NotANumber), PyNone, Missing}

PostDateInputs == {PyStr(D_2026_02_01), PyStr(D_2026_10_01), PyStr(D_02_01_2026), Missing}

PostStatusInputs == {PyStr(Present), PyStr(Late), Missing}

PostBodies ==
    {JsonNull} \cup {JsonObject(e, d, s) :
                        e \in PostEmpInputs, d \in PostDateInputs, s \in PostStatusInputs}

\* what the <int:emp_id> and <string:date> converters let through
ApiEmpInputs == {0, 1, 2}

ApiDateInputs == {D_2026_02_01, D_2026_10_01, D_2026_2_1, D_02_01_2026}

\* request.args.get(...): None, "" or the text
ApiArgInputs == {PyNone, PyStr(<<>>), PyStr(D_2026_02_01), PyStr(D_2026_10_01), PyStr(D_02_01_2026)}

NextApi ==
    \/ \E data \in PostBodies : api_add_record(data)
    \/ \E e \in ApiEmpInputs : api_get_employee_records(e)
    \/ \E e \in ApiEmpInputs, d \in ApiDateInputs : api_delete_record(e, d)
    \/ \E e \in ApiEmpInputs : api_get_employee_summary(e)
    \/ \E a \in ApiArgInputs, b \in ApiArgInputs : api_filter_records(a, b)
    \/ \E e \in EmpInputs, d \in DateInputs : delete_record(e, d)
    \/ Return

SpecApi == Init /\ [][NextApi]_vars

(***************************************************************************)
(* Two request threads on the module-level tracker, without a lock.  A     *)
(* thread runs POST /api/records or DELETE /api/records/<e>/<d> one        *)
(* statement at a time; the statements of the two threads interleave.      *)
(* add_record: look up or create the employee's dict (setdefault), then    *)
(* write the entry into that dict.  delete_record: the membership check,   *)
(* del of the entry, the test for an empty dict, del of the employee.      *)
(* A KeyError is caught by no handler clause: the request is answered 500. *)
(* Requests come in rounds: a round ends when no request is in progress.   *)
(***************************************************************************)
ConcEmps == {1, 2}

ConcDates == {D_2026_02_01, D_2026_10_01}

ConcStatuses == {Present, Absent}

Done(t, code) == [t EXCEPT !.pc = "done", !.code = code, !.served = @ + 1]

\* one thread i takes a step that leaves the store recs and its own state t
ThreadStep(i, recs, t) ==
    /\ records' = recs
    /\ keytype' = KeyObjects(keytype, recs, "int")
    /\ threads' = [threads EXCEPT ![i] = t]
    /\ UNCHANGED <<pc, last, prev, view>>

\* the handler is entered with a valid body; the validations of add_record pass
conc_start_add(i, e, d, s) ==
    /\ threads[i].pc = "idle"
    /\ threads[i].served < MaxRounds
    /\ ~add_record_raises(PyInt(e), PyStr(d), PyStr(s))
    /\ ThreadStep(i, records,
                  [threads[i] EXCEPT !.pc = "setdefault", !.op = "add", !.e = e,
                                     !.d = _validate_date(PyStr(d)).s, !.s = s])

\* self.records.setdefault(emp_id, {})
SetDefault(recs, e) == IF e \in DOMAIN recs THEN recs ELSE (e :> EmptyDict) @@ recs

conc_setdefault(i) ==
    /\ threads[i].pc = "setdefault"
    /\ ThreadStep(i, SetDefault(records, threads[i].e),
                  [threads[i] EXCEPT !.pc = "store", !.orphan = FALSE])

\* a variant in which the write always goes to a dict that is not in the store
StoreInto_Detached(recs, t) == recs

\* ...[normalized_date] = status, on the dict setdefault returned: a write into the
\* store unless that dict has been removed from it
StoreInto(recs, t) ==
    IF t.orphan THEN recs ELSE [recs EXCEPT ![t.e] = (t.d :> t.s) @@ @]

conc_store(i) ==
    /\ threads[i].pc = "store"
    /\ ThreadStep(i, StoreInto(records, threads[i]), Done(threads[i], 201))

\* the route converters give an int and a str; _validate_date passes
conc_start_delete(i, e, d) ==
    /\ threads[i].pc = "idle"
    /\ threads[i].served < MaxRounds
    /\ _validate_date(PyStr(d)).ok
    /\ ThreadStep(i, records,
                  [threads[i] EXCEPT !.pc = "check", !.op = "delete", !.e = e,
                                     !.d = _validate_date(PyStr(d)).s])

\* if emp_id in self.records and normalized_date in self.records[emp_id]
conc_check(i) ==
    /\ threads[i].pc = "check"
    /\ LET t == threads[i]
       IN  IF t.e \in DOMAIN records /\ t.d \in DOMAIN records[t.e]
           THEN ThreadStep(i, records, [t EXCEPT !.pc = "del_entry"])
           ELSE ThreadStep(i, records, Done(t, 404))

\* del self.records[emp_id][normalized_date]
conc_del_entry(i) ==
    /\ threads[i].pc = "del_entry"
    /\ LET t == threads[i]
       IN  IF t.e \notin DOMAIN records \/ t.d \notin DOMAIN records[t.e]
           THEN ThreadStep(i, records, Done(t, 500))
           ELSE ThreadStep(i, [records EXCEPT ![t.e] = DictDel(@, t.d)],
                           [t EXCEPT !.pc = "check_empty"])

\* if not self.records[emp_id]
conc_check_empty(i) ==
    /\ threads[i].pc = "check_empty"
    /\ LET t == threads[i]
       IN  IF t.e \notin DOMAIN records THEN ThreadStep(i, records, Done(t, 500))
           ELSE IF records[t.e] = EmptyDict
           THEN ThreadStep(i, records, [t EXCEPT !.pc = "del_employee"])
           ELSE ThreadStep(i, records, Done(t, 200))

\* del self.records[emp_id]: the dict leaves the store, and with it a thread that
\* took it from setdefault and has not written yet
conc_del_employee(i) ==
    /\ threads[i].pc = "del_employee"
    /\ LET t == threads[i]
       IN  IF t.e \notin DOMAIN records
           THEN ThreadStep(i, records, Done(t, 500))
           ELSE /\ records' = DictDel(records, t.e)
                /\ keytype' = KeyObjects(keytype, records', "int")
                /\ threads' =
                       [j \in ThreadIds |->
                           IF j = i THEN Done(t, 200)
                           ELSE IF threads[j].pc = "store" /\ threads[j].e = t.e
                           THEN [threads[j] EXCEPT !.orphan = TRUE]
                           ELSE threads[j]]
                /\ UNCHANGED <<pc, last, prev, view>>

\* no request is in progress
Quiescent == \A i \in ThreadIds : threads[i].pc \in {"idle", "done"}

\* the responses have been sent; the threads wait for the next requests
conc_next_round ==
    /\ Quiescent
    /\ \E i \in ThreadIds : threads[i].pc = "done"
    /\ threads' = [i \in ThreadIds |-> [IdleThread EXCEPT !.served = threads[i].served]]
    /\ UNCHANGED <<records, keytype, pc, last, prev, view>>

NextConc ==
    \/ \E i \in ThreadIds, e \in ConcEmps, d \in ConcDates, s \in ConcStatuses :
          conc_start_add(i, e, d, s)
    \/ \E i \in ThreadIds : conc_setdefault(i)
    \/ \E i \in ThreadIds : conc_store(i)
    \/ \E i \in ThreadIds, e \in ConcEmps, d \in ConcDates : conc_start_delete(i, e, d)
    \/ \E i \in ThreadIds : conc_check(i)
    \/ \E i \in ThreadIds : conc_del_entry(i)
    \/ \E i \in ThreadIds : conc_check_empty(i)
    \/ \E i \in ThreadIds : conc_del_employee(i)
    \/ conc_next_round

SpecConc == Init /\ [][NextConc]_vars

(***************************************************************************)
(* Properties.                                                             *)
(*                                                                         *)
(* What the properties expect is stated without the operators above: the   *)
(* dates are classified by the tables below, the store is compared as a    *)
(* set of (employee, date, status) triples.                                *)
(***************************************************************************)
\* the date inputs written as YYYY-MM-DD that name a calendar day
WellFormedDates == {D_2024_02_29, D_2026_02_01, D_2026_10_01}

\* the date inputs that are no date: wrong field order, 29 February of a
\* common year, not a string
MalformedDates == {PyStr(D_02_01_2026), PyStr(D_2025_02_29), PyNone}

\* the calendar day a date input names, written as YYYY-MM-DD
CalendarDay(s) == IF s = D_2026_2_1 THEN D_2026_02_01 ELSE s

StatusSet == {Present, Absent, Leave}

\* the (employee, date, status) triples of a store
Triples(c) == UNION {{<<e, d, c[e][d]>> : d \in DOMAIN c[e]} : e \in DOMAIN c}

\* the triples of c for the entry (e, d)
At2(c, e, d) == {x \in Triples(c) : x[1] = e /\ x[2] = d}

Returned(op) == pc = "returned" /\ last.op = op

\* the call in last is add_record with a positive int, a well-formed date and a status
ValidAdd ==
    /\ Returned("add_record")
    /\ last.emp_id.t = "int" /\ last.emp_id.n > 0
    /\ last.date.t = "str" /\ last.date.s \in WellFormedDates
    /\ last.status.t = "str" /\ last.status.s \in StatusSet

\* C1: add_record with an employee id > 0, a well-formed date and one of the three
\* statuses succeeds, and the store afterwards is the store before with exactly the
\* entry (employee, date) set to the status: every other entry is as it was.
C1_AddSetsExactlyThatEntry ==
    ValidAdd =>
        /\ ~last.raised
        /\ Triples(records) =
               (Triples(prev) \ At2(prev, last.emp_id.n, last.date.s))
                   \cup {<<last.emp_id.n, last.date.s, last.status.s>>}
        /\ DOMAIN records = DOMAIN prev \cup {last.emp_id.n}
        /\ get_records_result(records, last.emp_id).v[last.date.s] = last.status.s

\* a valid add_record has run on a store in which the employee had another record
\* and another employee had records
C1_Witness ==
    /\ ValidAdd
    /\ \E x \in Triples(prev) : x[1] = last.emp_id.n /\ x[2] # last.date.s
    /\ \E x \in Triples(prev) : x[1] # last.emp_id.n

\* the call in last is add_record with an argument that is not valid
InvalidAdd ==
    /\ Returned("add_record")
    /\ \/ last.emp_id.t # "int"
       \/ last.emp_id.n <= 0
       \/ last.date \in MalformedDates
       \/ last.status.t # "str"
       \/ last.status.s \notin StatusSet

CountOf(c, e, s) == Cardinality({x \in Triples(c) : x[1] = e /\ x[3] = s})

StatusIndex(s) == CHOOSE i \in 1..3 : <<Present, Absent, Leave>>[i] = s

\* C3: an (employee, date) pair holds one status and the last write wins: when
\* add_record succeeds on a pair that already had a status, get_records shows the
\* new status, and get_summary counts the date once, under the new status only
\* (the total of the three counts does not grow).
C3_LastWriteWins ==
    (/\ Returned("add_record")
     /\ ~last.raised
     /\ last.emp_id.n \in DOMAIN prev
     /\ CalendarDay(last.date.s) \in DOMAIN prev[last.emp_id.n]) =>
        LET e == last.emp_id.n
            d == CalendarDay(last.date.s)
            old == prev[e][d]
            before == get_summary_result(prev, last.emp_id).v
            after == get_summary_result(records, last.emp_id).v
        IN  /\ get_records_result(records, last.emp_id).v[d] = last.status.s
            /\ Cardinality(At2(records, e, d)) = 1
            /\ SumSeq(after) = SumSeq(before)
            /\ \A i \in 1..3 :
                  after[i] = before[i]
                             - (IF StatusIndex(old) = i THEN 1 ELSE 0)
                             + (IF StatusIndex(last.status.s) = i THEN 1 ELSE 0)

\* add_record has overwritten an entry with a different status
C3_Witness ==
    /\ Returned("add_record")
    /\ ~last.raised
    /\ \E x \in Triples(prev) :
          /\ x[1] = last.emp_id.n
          /\ x[2] = CalendarDay(last.date.s)
          /\ x[3] # last.status.s

\* the call in last is delete_record with an int employee and a well-formed date
DeleteOf(found) ==
    /\ Returned("delete_record")
    /\ last.emp_id.t = "int"
    /\ last.date.t = "str" /\ last.date.s \in WellFormedDates
    /\ (At2(prev, last.emp_id.n, last.date.s) # {}) = found

\* C4: delete_record on an existing (employee, date) entry returns True and removes
\* exactly that entry: every other entry of that and of every other employee is as
\* it was, and an employee whose only record it was is no longer a key of the store.
C4_DeleteRemovesExactlyThatEntry ==
    DeleteOf(TRUE) =>
        /\ ~last.raised
        /\ last.ret = TRUE
        /\ Triples(records) = Triples(prev) \ At2(prev, last.emp_id.n, last.date.s)
        /\ last.date.s \notin DOMAIN get_records_result(records, last.emp_id).v
        /\ DOMAIN records =
               (IF DOMAIN prev[last.emp_id.n] = {last.date.s}
                THEN DOMAIN prev \ {last.emp_id.n} ELSE DOMAIN prev)

\* delete_record has removed one of two records of an employee, beside another employee
C4_Witness ==
    /\ DeleteOf(TRUE)
    /\ Cardinality(DOMAIN prev[last.emp_id.n]) = 2
    /\ DOMAIN prev # {last.emp_id.n}
    /\ last.ret = TRUE

\* C5: delete_record with a well-formed date, for an unknown employee or an employee
\* without a record on that date, returns False without raising and leaves the store
\* unchanged.
C5_DeleteOfNothingReturnsFalse ==
    DeleteOf(FALSE) => ~last.raised /\ last.ret = FALSE /\ records = prev

\* delete_record found the employee but not the date
C5_Witness ==
    /\ DeleteOf(FALSE)
    /\ last.emp_id.n \in DOMAIN prev
    /\ last.ret = FALSE

\* the number of records of employee e in the store c
RecordsOf(c, e) == IF e \in DOMAIN c THEN Cardinality(DOMAIN c[e]) ELSE 0

\* C6: no employee key maps to an empty date map; get_records, get_summary and
\* get_attendance_rate answer None exactly for the employees that have no record,
\* and get_attendance_rate never takes its total == 0 branch.
C6_NoEmptyEmployee ==
    /\ \A e \in DOMAIN records : records[e] # EmptyDict
    /\ \A e \in EmpInputs :
          LET none == (e.t # "int" \/ RecordsOf(records, e.n) = 0)
          IN  /\ e.t = "int" => get_records_result(records, e).none = none
              /\ e.t = "int" => get_summary_result(records, e).none = none
              /\ e.t = "int" => (get_attendance_rate_branch(records, e) = "none") = none
              /\ get_attendance_rate_branch(records, e) # "zero"
    /\ Returned("get_attendance_rate") => last.ret.branch # "zero"

\* the last record of an employee has been deleted
C6_Witness ==
    /\ Returned("delete_record")
    /\ last.ret = TRUE
    /\ last.emp_id.n \in DOMAIN prev
    /\ last.emp_id.n \notin DOMAIN records

\* C7: get_all_records returns a defensive copy: whatever a caller writes into the
\* returned value, the store reports through get_records, get_summary and
\* get_all_records what it reported when get_all_records was called.
C7_ReturnedCopyIsDefensive ==
    HoldsView =>
        /\ \A e \in EmpInputs :
              /\ get_records_result(records, e) = get_records_result(prev, e)
              /\ get_summary_result(records, e) = get_summary_result(prev, e)
        /\ records = prev

\* C8: for an employee in the store get_summary returns the three counts, each the
\* number of the employee's records with that status, so that they add up to the
\* number of the employee's records; get_all_summaries returns that summary for
\* each employee in the store and for no other.
C8_SummaryCountsRecords ==
    /\ (Returned("get_summary") /\ last.emp_id.t = "int" /\ last.emp_id.n \in DOMAIN prev) =>
           /\ ~last.ret.none
           /\ DOMAIN last.ret.v = 1..3
           /\ \A i \in 1..3 :
                 last.ret.v[i] = CountOf(prev, last.emp_id.n, <<Present, Absent, Leave>>[i])
           /\ last.ret.v[1] + last.ret.v[2] + last.ret.v[3] = RecordsOf(prev, last.emp_id.n)
    /\ Returned("get_all_summaries") =>
           /\ DOMAIN last.ret = {x[1] : x \in Triples(prev)}
           /\ \A e \in DOMAIN last.ret :
                 /\ DOMAIN last.ret[e] = 1..3
                 /\ \A i \in 1..3 :
                       last.ret[e][i] = CountOf(prev, e, <<Present, Absent, Leave>>[i])

\* get_summary has counted two records of one status and one of another
C8_Witness ==
    /\ Returned("get_summary")
    /\ ~last.ret.none
    /\ \E i, j \in 1..3 : last.ret.v[i] = 2 /\ last.ret.v[j] = 1

\* the float v times the natural k, and the natural k, both as naturals on the
\* scale of v's exponent: FloatTimes(v, k) and Scaled(v, n) compare as v * k and n do
FloatTimes(v, k) == ShiftLeft(MulSmall(v.m, k, 0), IF v.e > 0 THEN v.e ELSE 0)

Scaled(v, n) == ShiftLeft(NatOf(n), IF v.e < 0 THEN 0 - v.e ELSE 0)

FloatEqInt(v, n) == FloatTimes(v, 1) = Scaled(v, n)

FloatLeInt(v, n) == LeNat(FloatTimes(v, 1), Scaled(v, n))

\* |v * k - n| <= n / 2^(MantissaBits - 2): v * k is n up to the rounding of a
\* division and a multiplication
WithinRounding(v, k, n) ==
    LET x == FloatTimes(v, k)
        y == Scaled(v, n)
        b == MantissaBits - 2
    IN  /\ LeNat(ShiftLeft(x, b), AddNat(ShiftLeft(y, b), y, 0))
        /\ LeNat(ShiftLeft(y, b), AddNat(ShiftLeft(x, b), y, 0))

\* the call in last is get_attendance_rate for an employee with at least one record
RateCall ==
    /\ Returned("get_attendance_rate")
    /\ last.emp_id.t = "int"
    /\ RecordsOf(prev, last.emp_id.n) >= 1

\* C9 as stated: for an employee with at least one record, get_attendance_rate is
\* (Present records / records) x 100 with rate x total = 100 x Present exactly; it
\* lies between 0 and 100, and is 100 when all records are Present, 50 for one
\* Present and one Absent, 0 when none is Present.
C9_RateTimesTotalIsExact ==
    RateCall =>
        LET p == CountOf(prev, last.emp_id.n, Present)
            t == RecordsOf(prev, last.emp_id.n)
            rate == last.ret.v
        IN  /\ last.ret.branch = "rate"
            /\ FloatTimes(rate, t) = Scaled(rate, 100 * p)
            /\ FloatLeInt(rate, 100)
            /\ p = t => FloatEqInt(rate, 100)
            /\ (p = 1 /\ t = 2) => FloatEqInt(rate, 50)
            /\ p = 0 => FloatEqInt(rate, 0)

\* C9: for an employee with at least one record, get_attendance_rate is the float
\* (Present records / records) * 100: it lies between 0 and 100, rate x total is
\* 100 x Present up to floating-point rounding, and exactly so when the number of
\* records is a power of two or when all or none of the records are Present (100
\* when all are Present, 50 for one Present and one Absent, 0 when none is).
C9_RateIsRoundedQuotient ==
    RateCall =>
        LET p == CountOf(prev, last.emp_id.n, Present)
            t == RecordsOf(prev, last.emp_id.n)
            rate == last.ret.v
        IN  /\ last.ret.branch = "rate"
            /\ WithinRounding(rate, t, 100 * p)
            /\ FloatLeInt(rate, 100)
            /\ (p = t \/ p = 0 \/ t \in {1, 2, 4, 8}) =>
                   FloatTimes(rate, t) = Scaled(rate, 100 * p)
            /\ p = t => FloatEqInt(rate, 100)
            /\ (p = 1 /\ t = 2) => FloatEqInt(rate, 50)
            /\ p = 0 => FloatEqInt(rate, 0)

\* get_attendance_rate has answered for an employee with one Present record of three
C9_Witness ==
    /\ RateCall
    /\ last.ret.branch = "rate"
    /\ CountOf(prev, last.emp_id.n, Present) = 1
    /\ RecordsOf(prev, last.emp_id.n) = 3

\* the date inputs that _validate_date accepts
AcceptedBounds == WellFormedDates \cup {D_2026_2_1}

\* the calendar day of a stored date, as the number YYYYMMDD: a later day is a
\* larger number
DayNumber(d) ==
    CASE d = D_2024_02_29 -> 20240229
      [] d = D_2026_02_01 -> 20260201
      [] d = D_2026_10_01 -> 20261001

\* the call in last is filter_by_date_range with two dates
FilterCall ==
    /\ Returned("filter_by_date_range")
    /\ last.start_date.t = "str" /\ last.start_date.s \in AcceptedBounds
    /\ last.end_date.t = "str" /\ last.end_date.s \in AcceptedBounds

\* C10: filter_by_date_range with two dates returns exactly the records whose
\* calendar day lies between start and end inclusive; no employee of the result has
\* an empty map; the result is empty when start is later than end; the store is
\* unchanged.
C10_FilterReturnsRecordsInRange ==
    FilterCall =>
        LET lo == DayNumber(CalendarDay(last.start_date.s))
            hi == DayNumber(CalendarDay(last.end_date.s))
        IN  /\ ~last.raised
            /\ \A x \in Triples(prev) : x[2] \in WellFormedDates
            /\ Triples(last.ret) =
                   {x \in Triples(prev) : lo <= DayNumber(x[2]) /\ DayNumber(x[2]) <= hi}
            /\ \A e \in DOMAIN last.ret : last.ret[e] # EmptyDict
            /\ DOMAIN last.ret \subseteq DOMAIN prev
            /\ lo > hi => last.ret = EmptyDict
            /\ records = prev

\* filter_by_date_range has returned some records of one employee, left others of
\* that employee out, and omitted another employee altogether
C10_Witness ==
    /\ FilterCall
    /\ \E e \in DOMAIN last.ret : DOMAIN last.ret[e] # DOMAIN prev[e]
    /\ DOMAIN last.ret # DOMAIN prev

\* C11: exporting a store with export_to_csv and importing the file into a fresh
\* store gives a store with the same employee -> date -> status mapping, and the
\* count import_from_csv returns is the number of records of the original store.
C11_RoundTripIsIdentity ==
    (pc = "returned" /\ last.op = "import_into_fresh") =>
        /\ last.raised = ""
        /\ last.fresh = prev
        /\ last.ret = NumRecords(prev)

\* the rows of FileInputs that name a positive employee id, a date and a status
\* in the columns their header gives, with the record each of them makes
GoodRows ==
    {[cells |-> <<<<"1">>, D_2026_02_01, Present>>, makes |-> <<1, D_2026_02_01, Present>>],
     [cells |-> <<D_2026_10_01, Absent, <<"2">>>>, makes |-> <<2, D_2026_10_01, Absent>>]}

\* the records the good rows of a file make
MadeBy(file) ==
    {g.makes : g \in {x \in GoodRows : \E i \in 1..Len(file.rows) : file.rows[i] = x.cells}}

\* C12: import_from_csv never aborts on a bad row: a row with a missing or empty
\* cell, a bad employee id, a malformed date or an invalid status is skipped without
\* raising and without being counted, every valid row of the file is added, and the
\* count returned is the number of rows add_record accepted.
C12_ImportNeverAborts ==
    Returned("import_from_csv") =>
        /\ last.raised = ""
        /\ last.ret =
               Cardinality({i \in 1..Len(last.file.rows) :
                               \E g \in GoodRows : g.cells = last.file.rows[i]})
        /\ Triples(records) =
               {x \in Triples(prev) : \A m \in MadeBy(last.file) : x[1] # m[1] \/ x[2] # m[2]}
                   \cup MadeBy(last.file)

\* a str of the shape YYYY-MM-DD: ten characters, digits but for the two hyphens
StrictShape(s) ==
    /\ Len(s) = 10
    /\ s[5] = "-" /\ s[8] = "-"
    /\ \A i \in {1, 2, 3, 4, 6, 7, 9, 10} : IsDigit(s[i])

\* a date argument that is a str of the shape YYYY-MM-DD naming a calendar day
StrictDate(date) ==
    date.t = "str" /\ StrictShape(date.s) /\ date.s \in WellFormedDates

\* C13: add_record, delete_record and filter_by_date_range accept a date only if it
\* has exactly the shape YYYY-MM-DD and names a calendar day, and raise the
\* invalid-date error for every other string (an unpadded month or day included); so
\* an accepted date is its own normal form, the key under which the record is kept.
C13_DateParsingIsStrict ==
    /\ (Returned("add_record") /\ ~StrictDate(last.date)) => last.raised
    /\ (Returned("delete_record") /\ ~StrictDate(last.date)) => last.raised
    /\ (Returned("filter_by_date_range")
           /\ ~(StrictDate(last.start_date) /\ StrictDate(last.end_date))) => last.raised
    /\ (Returned("add_record") /\ ~last.raised) =>
           /\ _validate_date(last.date).s = last.date.s
           /\ last.date.s \in DOMAIN records[last.emp_id.n]

\* the body of a POST is an object with a positive int emp_id, a well-formed date
\* and one of the three statuses
ValidPost(data) ==
    /\ data.kind = "object"
    /\ data.emp_id.t = "int" /\ data.emp_id.n > 0
    /\ data.date.t = "str" /\ data.date.s \in WellFormedDates
    /\ data.status.t = "str" /\ data.status.s \in StatusSet

\* C14: POST /api/records answers 201 with success = true and adds the record
\* exactly when the body has a positive integer emp_id, a valid date and a valid
\* status; for every other body (a missing field, a null, non-numeric, fractional,
\* zero or negative emp_id, a malformed date, an invalid status, no JSON object) it
\* answers 400 with success = false, never 500, and the store is unchanged.
C14_PostAnswers201Or400 ==
    Returned("POST /api/records") =>
        IF ValidPost(last.data)
        THEN /\ last.code = 201 /\ last.success
             /\ Triples(records) =
                    (Triples(prev) \ At2(prev, last.data.emp_id.n, last.data.date.s))
                        \cup {<<last.data.emp_id.n, last.data.date.s, last.data.status.s>>}
        ELSE /\ last.code = 400 /\ ~last.success
             /\ records = prev

\* C15: GET /api/records/<e> and GET /api/summary/<e> answer 404 with success =
\* false exactly when e has no record in the store, else 200 with success = true;
\* DELETE /api/records/<e>/<d> with a well-formed date answers 200 exactly when the
\* entry (e, d) existed, else 404; GET /api/filter without start_date or end_date
\* answers 400 and does not call the store.
C15_NotFoundIsReported ==
    /\ (Returned("GET /api/records/<emp_id>") \/ Returned("GET /api/summary/<emp_id>")) =>
           IF RecordsOf(prev, last.emp_id) = 0
           THEN last.code = 404 /\ ~last.success
           ELSE last.code = 200 /\ last.success
    /\ (Returned("DELETE /api/records/<emp_id>/<date>") /\ last.date \in WellFormedDates) =>
           IF At2(prev, last.emp_id, last.date) # {}
           THEN last.code = 200 /\ last.success
           ELSE last.code = 404 /\ ~last.success
    /\ (Returned("GET /api/filter")
           /\ (last.start_date = PyNone \/ last.end_date = PyNone)) =>
           last.code = 400 /\ ~last.success /\ ~last.called /\ records = prev

\* GET /api/records/<e> has answered 404 for an employee without records while
\* another employee has records
C15_Witness ==
    /\ Returned("GET /api/records/<emp_id>")
    /\ last.code = 404
    /\ last.emp_id > 0
    /\ records # EmptyDict

LostAdd(i) ==
    /\ threads[i].pc = "done" /\ threads[i].op = "add" /\ threads[i].code = 201
    /\ At2(records, threads[i].e, threads[i].d) = {}

\* thread i has finished a delete for employee e
DeleteFor(i, e) ==
    threads[i].pc = "done" /\ threads[i].op = "delete" /\ threads[i].e = e

\* C17 as stated: when two requests interleave statement by statement without a
\* lock, the store stays consistent: once both have finished, an add answered 201
\* for (e, d) is in the store unless a delete targeted the same (e, d), no delete
\* has raised an internal error, and no employee key maps to an empty map.
C17_InterleavingKeepsStoreConsistent ==
    Quiescent =>
        /\ \A i \in ThreadIds :
              LostAdd(i) =>
                  \E j \in ThreadIds \ {i} :
                      DeleteFor(j, threads[i].e) /\ threads[j].d = threads[i].d
        /\ \A i \in ThreadIds : threads[i].code # 500
        /\ \A e \in DOMAIN records : records[e] # EmptyDict

\* C17: when two requests interleave statement by statement without a lock, an add
\* answered 201 can be lost and a delete can end in an internal error (500), but
\* only next to a delete for the same employee in the other thread; once both have
\* finished, every other add answered 201 is in the store, a delete that ran next
\* to no delete for its employee has answered 200 or 404, and no employee key maps
\* to an empty map.
C17_OnlyDeletesOfTheEmployeeInterfere ==
    Quiescent =>
        /\ \A i \in ThreadIds :
              LostAdd(i) => \E j \in ThreadIds \ {i} : DeleteFor(j, threads[i].e)
        /\ \A i \in ThreadIds :
              threads[i].code = 500 =>
                  /\ threads[i].op = "delete"
                  /\ \E j \in ThreadIds \ {i} : DeleteFor(j, threads[i].e)
        /\ \A e \in DOMAIN records : records[e] # EmptyDict

\* an add answered 201 has been lost to a delete of another date of the employee
C17_Witness ==
    /\ Quiescent
    /\ \E i \in ThreadIds :
          /\ LostAdd(i)
          /\ \E j \in ThreadIds \ {i} :
                DeleteFor(j, threads[i].e) /\ threads[j].d # threads[i].d
                    /\ threads[j].code = 200

====
